---- MODULE Spec2Model ----
(***************************************************************************)
(* Account REST API Service: the request router of service/routes.py over  *)
(* the Account entity model and its durable store.                         *)
(*                                                                         *)
(* Each handler is an operator from (store, id counter, request) to the    *)
(* store after the request and the HTTP response; each action below issues *)
(* one request and records the request, the response and the store before. *)
(***************************************************************************)
EXTENDS Integers, Sequences, FiniteSets, TLC

\* ------------------------------------------------------------------ bounds
\* Largest id the store hands out in a run (ids are 1..MaxId).
MaxId == 3

\* ------------------------------------------------------- values on the wire
\* request.headers.get("Content-Type") when the header is missing (None)
NoHeader == "<None>"

ContentTypes ==
    {NoHeader, "application/json", "application/json; charset=utf-8", "test/html"}

RequiredFields == {"name", "email", "address", "phone_number"}

\* date.today() of the run, and an earlier date a payload may carry
Today == [year |-> 2026, month |-> 11, day |-> 5]
Earlier == [year |-> 2020, month |-> 2, day |-> 29]

\* date.isoformat()
isoformat(d) == IF d = Today THEN "2026-11-05" ELSE "2020-02-29"

\* date.fromisoformat()
fromisoformat(s) == IF s = "2026-11-05" THEN Today ELSE Earlier

\* a complete payload without date_joined, and one with it
PayloadA ==
    [name |-> "Alice", email |-> "a@x.com", address |-> "1 Main St",
     phone_number |-> "555-0100"]
PayloadB ==
    [name |-> "Updated Name", email |-> "updated@example.com",
     address |-> "Updated Address", phone_number |-> "555-555-5555",
     date_joined |-> "2020-02-29"]

\* payload p without the key k
Without(p, k) == [f \in (DOMAIN p) \ {k} |-> p[f]]

Payloads ==
    {PayloadA, PayloadB, [name |-> "not enough data"]}
        \cup {Without(PayloadA, k) : k \in RequiredFields}

\* request bodies: none at all, a JSON document that is not an object, or a
\* JSON object
NoBody == [kind |-> "absent"]
ArrayBody == [kind |-> "array"]
ObjectBody(p) == [kind |-> "object", data |-> p]
Bodies == {NoBody, ArrayBody} \cup {ObjectBody(p) : p \in Payloads}

\* URL paths as segment sequences: "/" is << >>, "/accounts/3" is <<"accounts", 3>>
RootPath == << >>
AccountPath(id) == <<"accounts", id>>

\* ---------------------------------------------------------------- responses
Response(st, b, h) == [status |-> st, body |-> b, headers |-> h]

EmptyBody == [kind |-> "empty"]
ErrorBody(st) == [kind |-> "error", status |-> st]
AccountBody(m) == [kind |-> "account", account |-> m]
ListBody(ms) == [kind |-> "list", items |-> ms]

\* flask.abort(code, message): the request ends with the error response
abort(code) == Response(code, ErrorBody(code), {})

\* what a handler leaves behind: the store, the id counter, the response
Result(st, nid, r) == [store |-> st, nextId |-> nid, resp |-> r]

\* ------------------------------------------------------------ entity model
\* Account.deserialize(data): DataValidationError when data is not a mapping
\* or a required key is missing; date_joined defaults to today
deserialize(body) ==
    IF body.kind # "object" THEN [ok |-> FALSE]
    ELSE IF ~(RequiredFields \subseteq DOMAIN body.data) THEN [ok |-> FALSE]
    ELSE [ok |-> TRUE,
          account |->
            [name |-> body.data["name"], email |-> body.data["email"],
             address |-> body.data["address"],
             phone_number |-> body.data["phone_number"],
             date_joined |->
                IF "date_joined" \in DOMAIN body.data
                THEN fromisoformat(body.data["date_joined"]) ELSE Today]]

\* Account.serialize()
serialize(a) ==
    [id |-> a.id, name |-> a.name, email |-> a.email, address |-> a.address,
     phone_number |-> a.phone_number, date_joined |-> isoformat(a.date_joined)]

\* Account.create(): the store assigns the next id and appends the record
create(st, nid, a) ==
    LET rec == [id |-> nid, name |-> a.name, email |-> a.email,
                address |-> a.address, phone_number |-> a.phone_number,
                date_joined |-> a.date_joined]
    IN [store |-> Append(st, rec), nextId |-> nid + 1, account |-> rec]

\* Account.find(id): the position of the record in the store, 0 when absent
find(st, account_id) ==
    IF \E i \in 1..Len(st) : st[i].id = account_id
    THEN CHOOSE i \in 1..Len(st) : st[i].id = account_id
    ELSE 0

\* Account.all()
all(st) == st

\* Account.update(data): overwrite the mutable fields of the record at
\* position i; id and date_joined stay
update(st, i, body) ==
    IF body.kind # "object" THEN [ok |-> FALSE]
    ELSE IF ~(RequiredFields \subseteq DOMAIN body.data) THEN [ok |-> FALSE]
    ELSE [ok |-> TRUE,
          store |->
            [st EXCEPT ![i] =
                [@ EXCEPT !.name = body.data["name"],
                          !.email = body.data["email"],
                          !.address = body.data["address"],
                          !.phone_number = body.data["phone_number"]]]]

\* Account.delete(): remove the record at position i
delete(st, i) ==
    [j \in 1..(Len(st) - 1) |-> IF j < i THEN st[j] ELSE st[j + 1]]

\* ----------------------------------------------------------------- router
\* check_content_type letting a request without the header through
check_content_type_missing_ok(content_type, media_type) ==
    IF content_type = NoHeader \/ content_type = media_type
    THEN [aborted |-> FALSE]
    ELSE [aborted |-> TRUE, resp |-> abort(415)]

\* check_content_type(media_type): passes, or aborts with 415
check_content_type(content_type, media_type) ==
    IF content_type # NoHeader /\ content_type # "" /\ content_type = media_type
    THEN [aborted |-> FALSE]
    ELSE [aborted |-> TRUE, resp |-> abort(415)]

\* GET /health
health == Response(200, [kind |-> "status", status |-> "OK"], {})

\* GET /
index ==
    Response(200,
             [kind |-> "index", name |-> "Account REST API Service",
              version |-> "1.0"], {})

\* create_accounts answering 201 without calling account.create()
create_accounts_skips_create(st, nid, content_type, body) ==
    LET ct == check_content_type(content_type, "application/json") IN
    IF ct.aborted THEN Result(st, nid, ct.resp)
    ELSE
      LET d == deserialize(body) IN
      IF ~d.ok THEN Result(st, nid, abort(400))
      ELSE
        LET c == create(st, nid, d.account)
            message == serialize(c.account)
        IN Result(st, nid,
                  Response(201, AccountBody(message),
                           {<<"Location", RootPath>>}))

\* create_accounts calling account.create() before account.deserialize()
create_accounts_persists_first(st, nid, content_type, body) ==
    LET ct == check_content_type(content_type, "application/json") IN
    IF ct.aborted THEN Result(st, nid, ct.resp)
    ELSE
      LET blank == [name |-> "", email |-> "", address |-> "",
                    phone_number |-> "", date_joined |-> Today]
          d == deserialize(body)
          c == create(st, nid, IF d.ok THEN d.account ELSE blank)
      IN IF ~d.ok THEN Result(c.store, c.nextId, abort(400))
         ELSE Result(c.store, c.nextId,
                     Response(201, AccountBody(serialize(c.account)),
                              {<<"Location", RootPath>>}))

\* POST /accounts
create_accounts(st, nid, content_type, body) ==
    LET ct == check_content_type(content_type, "application/json") IN
    IF ct.aborted THEN Result(st, nid, ct.resp)
    ELSE
      LET d == deserialize(body) IN
      IF ~d.ok THEN Result(st, nid, abort(400))
      ELSE
        LET c == create(st, nid, d.account)
            message == serialize(c.account)
            location_url == RootPath
        IN Result(c.store, c.nextId,
                  Response(201, AccountBody(message),
                           {<<"Location", location_url>>}))

\* list_accounts losing the last account
list_accounts_drops_last(st, nid) ==
    LET accounts == all(st)
        serialized_accounts ==
            [i \in 1..(Len(accounts) - 1) |-> serialize(accounts[i])]
    IN Result(st, nid, Response(200, ListBody(serialized_accounts), {}))

\* GET /accounts
list_accounts(st, nid) ==
    LET accounts == all(st)
        serialized_accounts ==
            [i \in 1..Len(accounts) |-> serialize(accounts[i])]
    IN Result(st, nid, Response(200, ListBody(serialized_accounts), {}))

\* read_account serializing the first account instead of the one found
read_account_first(st, nid, account_id) ==
    LET account == find(st, account_id) IN
    IF account = 0 THEN Result(st, nid, abort(404))
    ELSE Result(st, nid, Response(200, AccountBody(serialize(st[1])), {}))

\* GET /accounts/<int:account_id>
read_account(st, nid, account_id) ==
    LET account == find(st, account_id) IN
    IF account = 0 THEN Result(st, nid, abort(404))
    ELSE Result(st, nid, Response(200, AccountBody(serialize(st[account])), {}))

\* the keyword arguments the router passes to the view of
\* /accounts/<int:account_id>, and the parameters update_account declares
ViewArgs == {"account_id"}
UpdateAccountParams == {"self", "account_id"}

\* PUT /accounts/<int:account_id>: the call binds only when every declared
\* parameter is passed; otherwise it raises TypeError, answered with 500
update_account(st, nid, account_id, content_type, body) ==
    IF ~(UpdateAccountParams \subseteq ViewArgs)
    THEN Result(st, nid, abort(500))
    ELSE
      LET account == find(st, account_id) IN
      IF account = 0 THEN Result(st, nid, abort(404))
      ELSE
        LET u == update(st, account, body) IN
        IF ~u.ok THEN Result(st, nid, abort(400))
        ELSE Result(u.store, nid,
                    Response(200, AccountBody(serialize(u.store[account])), {}))

\* delete_account answering 404 for an id that is not in the store
delete_account_404(st, nid, account_id) ==
    LET account == find(st, account_id) IN
    IF account # 0
    THEN Result(delete(st, account), nid, Response(204, EmptyBody, {}))
    ELSE Result(st, nid, abort(404))

\* DELETE /accounts/<int:account_id>
delete_account(st, nid, account_id) ==
    LET account == find(st, account_id) IN
    IF account # 0
    THEN Result(delete(st, account), nid, Response(204, EmptyBody, {}))
    ELSE Result(st, nid, Response(204, EmptyBody, {}))

\* the GET routes of the application, by path
dispatch_get(st, nid, path) ==
    IF path = RootPath THEN Result(st, nid, index)
    ELSE IF path = <<"health">> THEN Result(st, nid, health)
    ELSE IF path = <<"accounts">> THEN list_accounts(st, nid)
    ELSE IF Len(path) = 2 /\ path[1] = "accounts" /\ path[2] \in Nat
         THEN read_account(st, nid, path[2])
    ELSE Result(st, nid, abort(404))

\* ------------------------------------------------------------------- state
VARIABLES
    store,      \* the persisted Accounts, in insertion order
    nextId,     \* the id the store assigns next
    req,        \* the last request
    resp,       \* its response
    prevStore   \* the store before the last request

vars == <<store, nextId, req, resp, prevStore>>

Request(route, id, ct, body) ==
    [route |-> route, account_id |-> id, content_type |-> ct, body |-> body]

\* ids a client may ask for: 0 is never assigned, MaxId + 1 neither
RequestIds == 0..(MaxId + 1)

Init ==
    /\ store = << >>
    /\ nextId = 1
    /\ req = Request("none", 0, NoHeader, NoBody)
    /\ resp = Response(0, EmptyBody, {})
    /\ prevStore = << >>

Handle(r, out) ==
    /\ req' = r
    /\ store' = out.store
    /\ nextId' = out.nextId
    /\ resp' = out.resp
    /\ prevStore' = store

Health ==
    Handle(Request("health", 0, NoHeader, NoBody), Result(store, nextId, health))

Index ==
    Handle(Request("index", 0, NoHeader, NoBody), Result(store, nextId, index))

\* the run stops creating once MaxId ids are handed out; rejected POSTs
\* are still issued
CreateAccounts ==
    \E ct \in ContentTypes, b \in Bodies :
        /\ create_accounts(store, nextId, ct, b).nextId <= MaxId + 1
        /\ Handle(Request("create_accounts", 0, ct, b),
                  create_accounts(store, nextId, ct, b))

ListAccounts ==
    Handle(Request("list_accounts", 0, NoHeader, NoBody),
           list_accounts(store, nextId))

ReadAccount ==
    \E x \in RequestIds :
        Handle(Request("read_account", x, NoHeader, NoBody),
               read_account(store, nextId, x))

UpdateAccount ==
    \E x \in RequestIds, ct \in ContentTypes, b \in Bodies :
        Handle(Request("update_account", x, ct, b),
               update_account(store, nextId, x, ct, b))

DeleteAccount ==
    \E x \in RequestIds :
        Handle(Request("delete_account", x, NoHeader, NoBody),
               delete_account(store, nextId, x))

Next ==
    \/ Health
    \/ Index
    \/ CreateAccounts
    \/ ListAccounts
    \/ ReadAccount
    \/ UpdateAccount
    \/ DeleteAccount

Spec == Init /\ [][Next]_vars

\* ------------------------------------------------------------ type sanity
Ids(st) == {st[i].id : i \in 1..Len(st)}

TypeOK ==
    /\ nextId \in 1..(MaxId + 1)
    /\ \A i \in 1..Len(store) : store[i].id \in 1..(nextId - 1)
    /\ \A i, j \in 1..Len(store) : i < j => store[i].id < store[j].id

\* ------------------------------------------------------------- vocabulary
JSON == "application/json"

\* the body is a JSON object carrying every required field
ValidBody(b) == b.kind = "object" /\ RequiredFields \subseteq DOMAIN b.data

\* the body is absent, or a JSON object lacking a required field
AbsentOrIncomplete(b) ==
    \/ b.kind = "absent"
    \/ b.kind = "object" /\ ~(RequiredFields \subseteq DOMAIN b.data)

\* the record of id x in st
RecordOf(st, x) == st[CHOOSE i \in 1..Len(st) : st[i].id = x]

\* st without the record of id x
Remove(st, x) == SelectSeq(st, LAMBDA a : a.id # x)

\* the date_joined a created account gets from payload p
ExpectedDate(p) ==
    IF "date_joined" \in DOMAIN p THEN p["date_joined"] ELSE isoformat(Today)

LocationOf(r) == (CHOOSE h \in r.headers : h[1] = "Location")[2]

\* ------------------------------------------------------------------ claims

\* C1: a valid payload POSTed as application/json is answered 201 with the
\* serialized account; the store gains exactly one record, whose id is new,
\* and a GET of that id right after returns the same name, email, address,
\* phone_number and date_joined.
C1_CreateAddsOneFreshReadableRecord ==
    (req.route = "create_accounts" /\ req.content_type = JSON
        /\ ValidBody(req.body))
    => /\ resp.status = 201
       /\ resp.body.kind = "account"
       /\ LET a == resp.body.account
              p == req.body.data
              got == read_account(store, nextId, a.id).resp
          IN /\ a.name = p["name"] /\ a.email = p["email"]
             /\ a.address = p["address"]
             /\ a.phone_number = p["phone_number"]
             /\ a.date_joined = ExpectedDate(p)
             /\ Len(store) = Len(prevStore) + 1
             /\ SubSeq(store, 1, Len(prevStore)) = prevStore
             /\ a.id \notin Ids(prevStore)
             /\ Cardinality({i \in 1..Len(store) : store[i].id = a.id}) = 1
             /\ got.status = 200
             /\ got.body.kind = "account"
             /\ got.body.account.id = a.id
             /\ got.body.account.name = a.name
             /\ got.body.account.email = a.email
             /\ got.body.account.address = a.address
             /\ got.body.account.phone_number = a.phone_number
             /\ got.body.account.date_joined = a.date_joined

C1_Witness ==
    /\ req.route = "create_accounts" /\ req.content_type = JSON
    /\ ValidBody(req.body) /\ "date_joined" \in DOMAIN req.body.data
    /\ resp.status = 201
    /\ Len(prevStore) = 1 /\ Len(store) = 2
    /\ prevStore[1].id = 2 /\ store[2].id = 3

\* C2: GET /accounts/x answers 200 with the serialized stored record when a
\* record of id x is in the store, 404 when none is, and never changes the
\* store.
C2_ReadFoundOrNotFound ==
    req.route = "read_account"
    => /\ store = prevStore
       /\ IF req.account_id \in Ids(prevStore)
          THEN /\ resp.status = 200
               /\ resp.body =
                    AccountBody(serialize(RecordOf(prevStore, req.account_id)))
          ELSE resp.status = 404

C2_Witness ==
    /\ req.route = "read_account"
    /\ Len(store) = 2
    /\ req.account_id = store[2].id
    /\ store[1].name # store[2].name
    /\ resp.status = 200

\* C3: GET /accounts answers 200 with every record of the store exactly
\* once and nothing else, in ascending id order; with the empty sequence on
\* an empty store.
C3_ListIsTheStoreInOrder ==
    req.route = "list_accounts"
    => /\ resp.status = 200
       /\ resp.body.kind = "list"
       /\ store = prevStore
       /\ LET items == resp.body.items
          IN /\ Len(items) = Len(store)
             /\ \A i \in 1..Len(store) :
                  Cardinality({j \in 1..Len(items) :
                                 items[j] = serialize(store[i])}) = 1
             /\ \A j \in 1..Len(items) :
                  \E i \in 1..Len(store) : items[j] = serialize(store[i])
             /\ \A j, k \in 1..Len(items) : j < k => items[j].id < items[k].id
             /\ (store = << >> => items = << >>)

C3_Witness ==
    /\ req.route = "list_accounts"
    /\ Len(store) = 2
    /\ store[1].id = 1 /\ store[2].id = 3
    /\ Len(resp.body.items) = 2

\* C5: DELETE /accounts/x answers 204 with an empty body and leaves the
\* prior store without the record of id x; an absent x changes nothing, and
\* a second DELETE x gives the same response and the same store.
C5_DeleteRemovesAndIsIdempotent ==
    req.route = "delete_account"
    => /\ resp.status = 204
       /\ resp.body = EmptyBody
       /\ store = Remove(prevStore, req.account_id)
       /\ (req.account_id \notin Ids(prevStore) => store = prevStore)
       /\ LET again == delete_account(store, nextId, req.account_id)
          IN again.resp = resp /\ again.store = store

C5_Witness ==
    /\ req.route = "delete_account"
    /\ Len(prevStore) = 3 /\ Len(store) = 2
    /\ req.account_id = prevStore[2].id
    /\ resp.status = 204

C7_WrongContentTypeIs415 ==
    (req.route = "create_accounts" /\ req.content_type # JSON)
    => /\ resp.status = 415
       /\ store = prevStore

C7_Witness ==
    /\ req.route = "create_accounts"
    /\ req.content_type = NoHeader
    /\ ValidBody(req.body)
    /\ resp.status = 415
    /\ Len(store) = 1

\* C4: PUT /accounts/x of a stored x with a valid full payload is answered
\* 200 with the account carrying the payload's name, email, address and
\* phone_number; a GET of x returns them; id, date_joined and every other
\* record are unchanged.
C4_UpdateOverwritesFields ==
    (req.route = "update_account" /\ req.content_type = JSON
        /\ ValidBody(req.body) /\ req.account_id \in Ids(prevStore))
    => /\ resp.status = 200
       /\ resp.body.kind = "account"
       /\ LET a == resp.body.account
              p == req.body.data
              old == RecordOf(prevStore, req.account_id)
              got == read_account(store, nextId, req.account_id).resp
          IN /\ a.name = p["name"] /\ a.email = p["email"]
             /\ a.address = p["address"]
             /\ a.phone_number = p["phone_number"]
             /\ a.id = old.id
             /\ a.date_joined = isoformat(old.date_joined)
             /\ got.status = 200 /\ got.body = resp.body
             /\ Len(store) = Len(prevStore)
             /\ \A i \in 1..Len(store) :
                  prevStore[i].id # req.account_id => store[i] = prevStore[i]

\* C8: PUT /accounts/x of an x that is not in the store is answered 404 and
\* the store is unchanged.
C8_UpdateMissingIs404 ==
    (req.route = "update_account" /\ req.account_id \notin Ids(prevStore))
    => /\ resp.status = 404
       /\ store = prevStore

\* C9: a 201 carries a Location header that is the path of the account just
\* created, and a GET of that path returns the created account.
C9_LocationPointsAtNewAccount ==
    (req.route = "create_accounts" /\ resp.status = 201)
    => /\ \E h \in resp.headers : h[1] = "Location"
       /\ LocationOf(resp) = AccountPath(resp.body.account.id)
       /\ dispatch_get(store, nextId, LocationOf(resp)).resp.body = resp.body

\* C10: a PUT whose Content-Type is missing or is not exactly
\* application/json is answered 415 and the store is unchanged.
C10_UpdateWrongContentTypeIs415 ==
    (req.route = "update_account" /\ req.content_type # JSON)
    => /\ resp.status = 415
       /\ store = prevStore

====
